---- MODULE Spec2Model ----
(***************************************************************************)
(* Recommendation orchestration of Optima-IDP:                             *)
(* backend/controllers/recommender.controller.js (getWeights and           *)
(* getSuggestions).  The stores (users, resources, development plans,     *)
(* legacy weight file) are read-only during a request; the scoring oracle  *)
(* is an external service whose answer is an input.                        *)
(*                                                                         *)
(* JavaScript values: an absent field or undefined is the string           *)
(* undefined below; weights are the source's reals times 100.              *)
(* Pass-through fields of a recommendation that no rule reads (title,      *)
(* type, url, duration) are left out of the records, and so are the        *)
(* payload's performance_reports and skills, which are copied from their   *)
(* collections and read by nothing else.                                   *)
(***************************************************************************)
EXTENDS Integers, Sequences, FiniteSets, TLC

VARIABLES
    users,       \* User collection: id -> document
    resources,   \* Resource collection: id -> document
    idps,        \* IDP collection: id -> document
    legacyFile,  \* config/recommender-weights.json on disk
    moduleWeights, \* the module-level object bound to DEFAULT_WEIGHTS
    rq,          \* per request: position and locals of getSuggestions
    wOut         \* last outcome of a direct getWeights call

vars == <<users, resources, idps, legacyFile, moduleWeights, rq, wOut>>

-----------------------------------------------------------------------------
(* Bounds of the model *)

\* longest oracle answer enumerated item by item
MaxRecs == 2
\* how far beyond the limit the long oracle answers go
MaxOver == 1

-----------------------------------------------------------------------------
(* JavaScript values *)

undefined == "<undefined>"

\* ToBoolean on the strings of the model: undefined and "" are falsy
Truthy(v) == v # undefined /\ v # ""

Tenants == {"A", "B"}
UserOrder == <<"u1", "u2", "u3">>
\* "u4" is an identifier no stored user has
UserIds == {"u1", "u2", "u3", "u4"}
ResOrder == <<"r1", "r2">>
ResIds == {"r1", "r2"}
IdpOrder == <<"p1", "p2">>
IdpIds == {"p1", "p2"}
Requests == {"q1", "q2"}

Min(a, b) == IF a < b THEN a ELSE b

Ret(v) == [kind |-> "return", value |-> v]
Throw == [kind |-> "throw", value |-> undefined]
\* a block that completed without returning
Fall == [kind |-> "fall", value |-> undefined]

-----------------------------------------------------------------------------
(* Weight Resolver: getWeights *)

DEFAULT_WEIGHTS ==
    [skill_gap |-> 30, skill_relevance |-> 20, difficulty_match |-> 20,
     collaborative |-> 15, resource_type |-> 0, skill_similarity |-> 15]

\* weight configurations an admin or the legacy file may hold
AdminFull ==
    [skill_gap |-> 40, skill_relevance |-> 10, difficulty_match |-> 10,
     collaborative |-> 20, resource_type |-> 10, skill_similarity |-> 10]
AdminPartial == [skill_gap |-> 70, collaborative |-> 30]
LegacyFull ==
    [skill_gap |-> 25, skill_relevance |-> 25, difficulty_match |-> 25,
     collaborative |-> 25, resource_type |-> 0, skill_similarity |-> 0]
LegacyPartial == [skill_relevance |-> 100]

LegacyFullText ==
    "{\"skill_gap\":0.25,\"skill_relevance\":0.25,\"difficulty_match\":0.25,\"collaborative\":0.25,\"resource_type\":0,\"skill_similarity\":0}"
LegacyPartialText == "{\"skill_relevance\":1}"
FileTexts == {LegacyFullText, LegacyPartialText, "{\"skill_gap\": 0.3,", ""}

\* JSON.parse on the texts of the model: the value, or a SyntaxError
JSONparse(text) ==
    CASE text = LegacyFullText -> Ret(LegacyFull)
      [] text = LegacyPartialText -> Ret(LegacyPartial)
      [] OTHER -> Throw

\* companySettings of a user document
NoSettings == [has |-> "none", aiWeights |-> DEFAULT_WEIGHTS]
EmptySettings == [has |-> "empty", aiWeights |-> DEFAULT_WEIGHTS]
WithWeights(w) == [has |-> "weights", aiWeights |-> w]

\* positions in UserOrder of the stored users matching {company, role: 'admin'}
AdminMatches(company) ==
    {i \in 1..Len(UserOrder) :
        /\ UserOrder[i] \in DOMAIN users
        /\ users[UserOrder[i]].company = company
        /\ users[UserOrder[i]].role = "admin"}

\* User.findOne({ company, role: 'admin' }): first match, null, or a rejection
findOneAdmin(company, storeRaises) ==
    IF storeRaises THEN Throw
    ELSE IF AdminMatches(company) = {} THEN Ret([isNull |-> TRUE, doc |-> undefined])
    ELSE LET i == CHOOSE k \in AdminMatches(company) :
                      \A j \in AdminMatches(company) : k <= j
         IN Ret([isNull |-> FALSE, doc |-> UserOrder[i]])

\* fs.readFileSync(CONFIG_PATH, "utf8")
readFileSync == IF legacyFile.state = "present" THEN Ret(legacyFile.text) ELSE Throw

\* fs.existsSync(CONFIG_PATH)
existsSync == legacyFile.state # "absent"

\* the legacy block: return the parsed file, or fall out of the block when the
\* file is absent or the inner catch took a read or parse error
LegacyTier ==
    IF existsSync
    THEN LET t == readFileSync
         IN IF t.kind = "throw" THEN Fall
            ELSE LET p == JSONparse(t.value)
                 IN IF p.kind = "throw" THEN Fall ELSE Ret(p.value)
    ELSE Fall

\* variant: an admin configuration completed from the defaults
MergedWeightsTry(company, storeRaises) ==
    LET a == findOneAdmin(company, storeRaises)
    IN IF a.kind = "throw" THEN Throw
       ELSE IF /\ ~a.value.isNull
               /\ users[a.value.doc].companySettings.has = "weights"
            THEN LET w == users[a.value.doc].companySettings.aiWeights
                 IN Ret([k \in DOMAIN DEFAULT_WEIGHTS |->
                           IF k \in DOMAIN w THEN w[k] ELSE DEFAULT_WEIGHTS[k]])
            ELSE LegacyTier

\* the body of the outer try of getWeights
WeightsTry(company, storeRaises) ==
    LET a == findOneAdmin(company, storeRaises)
    IN IF a.kind = "throw" THEN Throw
       ELSE IF /\ ~a.value.isNull
               /\ users[a.value.doc].companySettings.has = "weights"
            THEN Ret(users[a.value.doc].companySettings.aiWeights)
            ELSE LegacyTier

\* variant: no outer catch, a rejected lookup reaches the caller
UncaughtGetWeights(company, storeRaises) ==
    LET b == WeightsTry(company, storeRaises)
    IN IF b.kind = "fall" THEN Ret(moduleWeights) ELSE b

\* getWeights: the outer catch takes a throw of the try body, then the
\* module's DEFAULT_WEIGHTS object is returned
getWeights(company, storeRaises) ==
    LET b == WeightsTry(company, storeRaises)
    IN IF b.kind = "return" THEN b ELSE Ret(moduleWeights)

-----------------------------------------------------------------------------
(* Requests *)

NoResponse == [status |-> 0, body |-> "none", recommendations |-> <<>>]
Response(status, body, recs) ==
    [status |-> status, body |-> body, recommendations |-> recs]

NoAnswer == [kind |-> "none", recommendations |-> <<>>]

NoUser == [company |-> undefined, role |-> undefined, skills |-> <<>>]
NoPayload == [user_skills |-> <<>>, resources |-> <<>>, peer_data |-> <<>>,
              custom_weights |-> DEFAULT_WEIGHTS, limit |-> 0,
              persona |-> undefined, goal_text |-> undefined]

IdleRequest ==
    [pc |-> "idle", userId |-> undefined, userCompany |-> undefined,
     user |-> NoUser, goalText |-> undefined,
     companyUserIds |-> {}, allResources |-> <<>>, allUsers |-> <<>>,
     peerData |-> <<>>, formattedResources |-> <<>>,
     weightsRaised |-> FALSE, payload |-> NoPayload,
     oracleCalls |-> 0, oracleOutcome |-> "none", path |-> "none",
     arrived |-> NoAnswer, res |-> NoResponse]

NoWeightsCall == [called |-> FALSE, company |-> undefined, storeRaised |-> FALSE,
                  out |-> Fall]

-----------------------------------------------------------------------------
(* Signal Aggregator: tenant-scoped resource candidates *)

\* req.user.company as the authentication layer attached it to the request:
\* the stored company of the authenticated user (any tenant when the account
\* is gone by the time the handler runs)
AuthCompany(uid) ==
    IF uid \in DOMAIN users THEN {users[uid].company} ELSE Tenants

\* variant: the company filter left out of the query
AllUserIds(userCompany) == DOMAIN users

\* User.find({ company: userCompany }).select('_id'), mapped to the ids
CompanyUserIds(userCompany) ==
    {u \in DOMAIN users : users[u].company = userCompany}

\* the subsequence of s whose elements satisfy Keep, in order
RECURSIVE SelectIds(_, _)
SelectIds(s, keep) ==
    IF s = <<>> THEN <<>>
    ELSE IF Head(s) \in keep THEN <<Head(s)>> \o SelectIds(Tail(s), keep)
         ELSE SelectIds(Tail(s), keep)

\* populate("createdBy", "name"): the creator's name, or null for a creator
\* that is not stored
Populate(creator) ==
    IF creator \in DOMAIN users
    THEN [isNull |-> FALSE, name |-> users[creator].name]
    ELSE [isNull |-> TRUE, name |-> undefined]

\* Resource.find({ createdBy: { $in: companyUserIds } }).populate(...).lean()
FindResourcesBy(companyUserIds) ==
    LET ids == SelectIds(ResOrder,
                   {x \in DOMAIN resources : resources[x].createdBy \in companyUserIds})
    IN [i \in 1..Len(ids) |->
          [_id |-> ids[i], provider |-> resources[ids[i]].provider,
           skill |-> resources[ids[i]].skill,
           createdBy |-> Populate(resources[ids[i]].createdBy)]]

\* variant: the stored provider passed through
StoredProvider(r) == r.provider

\* the provider expression of formattedResources
EnrichProvider(r) ==
    IF Truthy(r.provider) /\ r.provider # "Unknown" THEN r.provider
    ELSE IF ~r.createdBy.isNull THEN r.createdBy.name ELSE "Unknown"

\* allResources.map(r => ({ ...r, _id, provider, skill }))
FormatResources(allResources) ==
    [i \in 1..Len(allResources) |->
        [_id |-> allResources[i]._id,
         provider |-> EnrichProvider(allResources[i]),
         skill |-> IF Truthy(allResources[i].skill)
                   THEN [isNull |-> FALSE, _id |-> allResources[i].skill]
                   ELSE [isNull |-> TRUE, _id |-> undefined],
         createdBy |-> allResources[i].createdBy]]

-----------------------------------------------------------------------------
(* Signal Aggregator: own skills, goal text, peers *)

\* user.skills.map(s => ({ skillId, level }))
UserSkills(skills) ==
    [i \in 1..Len(skills) |-> [skillId |-> skills[i].skillId, level |-> skills[i].level]]

\* the plans matching { employee: userId, status: { $in: [approved, pending, draft] } }
GoalPlans(userId) ==
    {p \in DOMAIN idps :
        /\ idps[p].employee = userId
        /\ idps[p].status \in {"approved", "pending", "draft"}}

\* variant: the status filter left out of the query
AnyStatusLatestGoal(userId) ==
    LET any == {p \in DOMAIN idps : idps[p].employee = userId}
    IN IF any = {} THEN ""
       ELSE idps[CHOOSE p \in any :
                    \A q \in any : idps[q].createdAt <= idps[p].createdAt].goals

\* IDP.findOne(...).sort({ createdAt: -1 }), then latestIdp ? latestIdp.goals : ""
LatestGoal(userId) ==
    IF GoalPlans(userId) = {} THEN ""
    ELSE idps[CHOOSE p \in GoalPlans(userId) :
                 \A q \in GoalPlans(userId) :
                     idps[q].createdAt <= idps[p].createdAt].goals

\* User.find({ _id: { $ne: userId }, company: userCompany }).select("skills role")
FindPeersOf(userId, userCompany) ==
    LET ids == SelectIds(UserOrder,
                   {u \in DOMAIN users : u # userId /\ users[u].company = userCompany})
    IN [i \in 1..Len(ids) |-> [_id |-> ids[i], skills |-> users[ids[i]].skills]]

\* IDP.find({ status: { $in: [approved, completed] }, employee: { $in: peers } })
FindPeerPlans(allUsers) ==
    LET ids == SelectIds(IdpOrder,
                   {p \in DOMAIN idps :
                       /\ idps[p].status \in {"approved", "completed"}
                       /\ \E i \in 1..Len(allUsers) : allUsers[i]._id = idps[p].employee})
    IN [i \in 1..Len(ids) |-> idps[ids[i]]]

\* s without its repeated elements, in first-seen order (a Set's iteration)
RECURSIVE InsertionOrder(_, _)
InsertionOrder(s, seen) ==
    IF s = <<>> THEN <<>>
    ELSE IF Head(s) \in seen THEN InsertionOrder(Tail(s), seen)
         ELSE <<Head(s)>> \o InsertionOrder(Tail(s), seen \cup {Head(s)})

\* the recommendedResources of the plans of one employee, plan after plan
RECURSIVE PlanResources(_, _)
PlanResources(allIDPs, empId) ==
    IF allIDPs = <<>> THEN <<>>
    ELSE (IF Head(allIDPs).employee = empId
          THEN Head(allIDPs).recommendedResources ELSE <<>>)
         \o PlanResources(Tail(allIDPs), empId)

\* Array.from(userResourcesMap[peer._id] || [])
PeerResources(allIDPs, empId) == InsertionOrder(PlanResources(allIDPs, empId), {})

\* one element of allUsers.map(peer => ...): level is s.level || 1
PeerEntry(peer, allIDPs) ==
    [userId |-> peer._id,
     skills |-> [i \in 1..Len(peer.skills) |->
                   [skillId |-> peer.skills[i].skillId,
                    level |-> IF peer.skills[i].level = 0 THEN 1
                              ELSE peer.skills[i].level]],
     resources |-> PeerResources(allIDPs, peer._id)]

\* the subsequence of the entries with a resource or a skill
RECURSIVE WithSignal(_)
WithSignal(entries) ==
    IF entries = <<>> THEN <<>>
    ELSE IF Len(Head(entries).resources) > 0 \/ Len(Head(entries).skills) > 0
         THEN <<Head(entries)>> \o WithSignal(Tail(entries))
         ELSE WithSignal(Tail(entries))

\* variant: every peer is emitted
UnfilteredPeerData(allUsers, allIDPs) ==
    [i \in 1..Len(allUsers) |-> PeerEntry(allUsers[i], allIDPs)]

\* peerData: allUsers.map(...).filter(p => p.resources.length > 0 || p.skills.length > 0)
PeerData(allUsers, allIDPs) ==
    WithSignal([i \in 1..Len(allUsers) |-> PeerEntry(allUsers[i], allIDPs)])

-----------------------------------------------------------------------------
(* Scoring Dispatcher: what the oracle may answer *)

\* limit: 10 of the payload
limit == 10
\* shuffled.slice(0, 10) of the fallback
sliceEnd == 10

Item(resourceId, _id, id, provider) ==
    [resourceId |-> resourceId, _id |-> _id, id |-> id, provider |-> provider,
     author |-> undefined]

\* items of an oracle answer: the identifier under each of the three field
\* names, an empty resourceId before an _id, two fields that disagree, no
\* identifier at all, and the provider given, absent or "Unknown"
OracleItems ==
    { Item("r1", undefined, undefined, undefined),
      Item(undefined, "r1", undefined, "Unknown"),
      Item(undefined, undefined, "r1", "Acme"),
      Item("r2", undefined, undefined, "Unknown"),
      Item("", "r2", undefined, undefined),
      Item("r2", "r1", undefined, undefined),
      Item(undefined, undefined, undefined, undefined),
      Item("", undefined, "", "Acme") }

SeqsUpTo(S, n) == UNION {[1..k -> S] : k \in 0..n}

\* an answer of n items with n different identifiers
LongAnswer(n) ==
    [i \in 1..n |-> Item("n" \o ToString(i), undefined, undefined, "Acme")]

Answer(recs) == [kind |-> "recs", recommendations |-> recs]

\* response.data of the oracle: a recommendations list, an object without
\* one, or no object at all
OracleAnswers ==
    {Answer(s) : s \in SeqsUpTo(OracleItems, MaxRecs)}
        \cup {Answer(LongAnswer(n)) : n \in limit..(limit + MaxOver)}
        \cup {[kind |-> "null", recommendations |-> <<>>],
              [kind |-> "noRecs", recommendations |-> <<>>]}

-----------------------------------------------------------------------------
(* Fallback Sampler *)

\* the orders formattedResources.sort(() => 0.5 - Math.random()) may leave
Shuffles(s) ==
    {[i \in 1..Len(s) |-> s[p[i]]] :
        p \in {q \in [1..Len(s) -> 1..Len(s)] :
                  \A i, j \in 1..Len(s) : q[i] = q[j] => i = j}}

\* one fallback recommendation
FallbackItem(r) ==
    [resourceId |-> r._id, _id |-> undefined, id |-> undefined,
     provider |-> r.provider,
     author |-> IF ~r.createdBy.isNull THEN r.createdBy.name ELSE "Unknown"]

\* variant: no list when there is nothing to sample
NonEmptyFallbackSample(shuffled) ==
    IF Len(shuffled) = 0 THEN [kind |-> "noRecs", recommendations |-> <<>>]
    ELSE [kind |-> "recs",
          recommendations |->
              [i \in 1..Min(sliceEnd, Len(shuffled)) |-> FallbackItem(shuffled[i])]]

\* shuffled.slice(0, 10).map(...)
FallbackSample(shuffled) ==
    LET n == Min(sliceEnd, Len(shuffled))
    IN Answer([i \in 1..n |-> FallbackItem(shuffled[i])])

-----------------------------------------------------------------------------
(* Result Reconciler *)

\* rec.resourceId || rec._id || rec.id
RecId(rec) ==
    IF Truthy(rec.resourceId) THEN rec.resourceId
    ELSE IF Truthy(rec._id) THEN rec._id
    ELSE rec.id

\* formattedResources.find(fr => fr._id === rId): the positions that match
FindOriginal(formattedResources, rId) ==
    {i \in 1..Len(formattedResources) : formattedResources[i]._id = rId}

\* the provider backfill of one recommendation
Backfill(rec, formattedResources) ==
    LET found == FindOriginal(formattedResources, RecId(rec))
    IN IF found # {} /\ (~Truthy(rec.provider) \/ rec.provider = "Unknown")
       THEN [rec EXCEPT !.provider =
                formattedResources[CHOOSE i \in found : \A j \in found : i <= j].provider]
       ELSE rec

\* variant: the seenIds test left out
KeepsAnyIdentified(rec, seenIds) == Truthy(RecId(rec))

\* variant: the test that rId is set left out
KeepsUnseen(rec, seenIds) == RecId(rec) \notin seenIds

\* whether the forEach body pushes rec, given the identifiers seen so far
Keeps(rec, seenIds) == Truthy(RecId(rec)) /\ RecId(rec) \notin seenIds

\* variant: a kept item is put in front of uniqueRecs
RECURSIVE PrependingDedup(_, _, _, _)
PrependingDedup(recs, formattedResources, uniqueRecs, seenIds) ==
    IF recs = <<>> THEN uniqueRecs
    ELSE LET rec == Backfill(Head(recs), formattedResources)
         IN IF Keeps(rec, seenIds)
            THEN PrependingDedup(Tail(recs), formattedResources,
                                 <<rec>> \o uniqueRecs, seenIds \cup {RecId(rec)})
            ELSE PrependingDedup(Tail(recs), formattedResources, uniqueRecs, seenIds)

\* the forEach over aiResponse.recommendations: uniqueRecs after the walk
RECURSIVE Dedup(_, _, _, _)
Dedup(recs, formattedResources, uniqueRecs, seenIds) ==
    IF recs = <<>> THEN uniqueRecs
    ELSE LET rec == Backfill(Head(recs), formattedResources)
         IN IF Keeps(rec, seenIds)
            THEN Dedup(Tail(recs), formattedResources,
                       Append(uniqueRecs, rec), seenIds \cup {RecId(rec)})
            ELSE Dedup(Tail(recs), formattedResources, uniqueRecs, seenIds)

\* from DEDUPLICATE RESPONSE to the response: the guarded dedup, then
\* aiResponse.recommendations.length, which throws into the outer catch for
\* an answer without a list
Reconcile(aiResponse, formattedResources) ==
    IF aiResponse.kind = "recs"
    THEN Response(200, "recs",
                  Dedup(aiResponse.recommendations, formattedResources, <<>>, {}))
    ELSE Response(500, "message", <<>>)

-----------------------------------------------------------------------------
(* getSuggestions, one action per resumption of the async handler *)

Set(r, fields) == rq' = [rq EXCEPT ![r] = fields]
StoreUnchanged == UNCHANGED <<users, resources, idps, legacyFile, moduleWeights, wOut>>

\* the outer catch: status 500 with a message
Failed(q) == [q EXCEPT !.pc = "done", !.res = Response(500, "message", <<>>)]

\* a request arrives with req.user set by the authentication layer
Request(r, uid, company) ==
    /\ rq[r].pc = "idle"
    /\ company \in AuthCompany(uid)
    /\ Set(r, [rq[r] EXCEPT !.pc = "findUser", !.userId = uid,
                             !.userCompany = company])
    /\ StoreUnchanged

\* variant: the null check on the profile left out
UncheckedFindUser(r) ==
    /\ rq[r].pc = "findUser"
    /\ Set(r, [rq[r] EXCEPT !.pc = "findIdp"])
    /\ StoreUnchanged

\* await User.findById(userId): 404 when the profile is missing
FindUser(r) ==
    /\ rq[r].pc = "findUser"
    /\ IF rq[r].userId \in DOMAIN users
       THEN Set(r, [rq[r] EXCEPT !.pc = "findIdp",
                       !.user = [company |-> users[rq[r].userId].company,
                                 role |-> users[rq[r].userId].role,
                                 skills |-> users[rq[r].userId].skills]])
       ELSE Set(r, [rq[r] EXCEPT !.pc = "done",
                       !.res = Response(404, "message", <<>>)])
    /\ StoreUnchanged

\* await IDP.findOne({ employee: userId, status: ... }).sort({ createdAt: -1 })
FindGoal(r) ==
    /\ rq[r].pc = "findIdp"
    /\ Set(r, [rq[r] EXCEPT !.pc = "findCompanyUsers",
                  !.goalText = LatestGoal(rq[r].userId)])
    /\ StoreUnchanged

\* await User.find({ company: userCompany })
FindCompanyUsers(r) ==
    /\ rq[r].pc = "findCompanyUsers"
    /\ Set(r, [rq[r] EXCEPT !.pc = "findResources",
                  !.companyUserIds = CompanyUserIds(rq[r].userCompany)])
    /\ StoreUnchanged

\* await Resource.find({ createdBy: { $in: companyUserIds } })
FindResources(r) ==
    /\ rq[r].pc = "findResources"
    /\ Set(r, [rq[r] EXCEPT !.pc = "findPeers",
                  !.allResources = FindResourcesBy(rq[r].companyUserIds)])
    /\ StoreUnchanged

\* await User.find({ _id: { $ne: userId }, company: userCompany })
FindPeers(r) ==
    /\ rq[r].pc = "findPeers"
    /\ Set(r, [rq[r] EXCEPT !.pc = "format",
                  !.allUsers = FindPeersOf(rq[r].userId, rq[r].userCompany)])
    /\ StoreUnchanged

\* await IDP.find(...), the last aggregation fetch: peerData and
\* formattedResources, then getWeights is called and awaited
FormatAndResolve(r) ==
    /\ rq[r].pc = "format"
    /\ Set(r, [rq[r] EXCEPT !.pc = "getWeights",
                  !.peerData = PeerData(rq[r].allUsers, FindPeerPlans(rq[r].allUsers)),
                  !.formattedResources = FormatResources(rq[r].allResources)])
    /\ StoreUnchanged

\* any of the aggregation queries rejects: the outer catch answers 500
StoreFails(r) ==
    /\ rq[r].pc \in {"findUser", "findIdp", "findCompanyUsers", "findResources",
                     "findPeers", "format"}
    /\ Set(r, Failed(rq[r]))
    /\ StoreUnchanged

\* variant: the resolved weights are written into the module's
\* DEFAULT_WEIGHTS object before the payload is built
SharingDispatch(r, storeRaises) ==
    /\ rq[r].pc = "getWeights"
    /\ LET w == getWeights(rq[r].user.company, storeRaises)
       IN /\ moduleWeights' = [k \in DOMAIN moduleWeights |->
                                  IF k \in DOMAIN w.value THEN w.value[k]
                                  ELSE moduleWeights[k]]
          /\ Set(r, [rq[r] EXCEPT !.pc = "oracle",
                         !.weightsRaised = storeRaises,
                         !.payload = [user_skills |-> UserSkills(rq[r].user.skills),
                                      resources |-> rq[r].formattedResources,
                                      peer_data |-> rq[r].peerData,
                                      custom_weights |-> moduleWeights',
                                      limit |-> limit,
                                      persona |-> rq[r].user.role,
                                      goal_text |-> rq[r].goalText],
                         !.oracleCalls = @ + 1])
    /\ UNCHANGED <<users, resources, idps, legacyFile, wOut>>

\* getWeights(user.company) settles; the payload is built and the oracle is
\* called with it
Dispatch(r, storeRaises) ==
    /\ rq[r].pc = "getWeights"
    /\ LET w == getWeights(rq[r].user.company, storeRaises)
       IN IF w.kind = "return"
          THEN Set(r, [rq[r] EXCEPT !.pc = "oracle",
                          !.weightsRaised = storeRaises,
                          !.payload = [user_skills |-> UserSkills(rq[r].user.skills),
                                       resources |-> rq[r].formattedResources,
                                       peer_data |-> rq[r].peerData,
                                       custom_weights |-> w.value,
                                       limit |-> limit,
                                       persona |-> rq[r].user.role,
                                       goal_text |-> rq[r].goalText],
                          !.oracleCalls = @ + 1])
          ELSE Set(r, Failed(rq[r]))
    /\ StoreUnchanged

\* RecommenderService.getRecommendedResources resolves with answer
OracleReturns(r, answer) ==
    /\ rq[r].pc = "oracle"
    /\ Set(r, [rq[r] EXCEPT !.pc = "done", !.oracleOutcome = "resolved",
                  !.path = "oracle", !.arrived = answer,
                  !.res = Reconcile(answer, rq[r].formattedResources)])
    /\ StoreUnchanged

\* variant: a rejected call is tried again
RetryingOracleFails(r, shuffled) ==
    /\ rq[r].pc = "oracle"
    /\ rq[r].oracleCalls < 3
    /\ shuffled \in Shuffles(rq[r].formattedResources)
    /\ Set(r, [rq[r] EXCEPT !.oracleCalls = @ + 1])
    /\ StoreUnchanged

\* RecommenderService.getRecommendedResources rejects with an Error: the
\* catch shuffles formattedResources in place and samples it
OracleFails(r, shuffled) ==
    /\ rq[r].pc = "oracle"
    /\ shuffled \in Shuffles(rq[r].formattedResources)
    /\ Set(r, [rq[r] EXCEPT !.pc = "done", !.oracleOutcome = "rejected",
                  !.path = "fallback", !.formattedResources = shuffled,
                  !.arrived = FallbackSample(shuffled),
                  !.res = Reconcile(FallbackSample(shuffled), shuffled)])
    /\ StoreUnchanged

\* variant: the call waits for the oracle without a bound
UnboundedOracleCall(r, shuffled) ==
    /\ rq[r].pc = "oracle"
    /\ shuffled \in Shuffles(rq[r].formattedResources)
    /\ UNCHANGED vars

\* the oracle has not answered when the timeout of the call expires: the
\* call is ended like a transport failure, and the catch of getSuggestions
\* shuffles and samples as for any rejection
OracleTimesOut(r, shuffled) ==
    /\ rq[r].pc = "oracle"
    /\ shuffled \in Shuffles(rq[r].formattedResources)
    /\ Set(r, [rq[r] EXCEPT !.pc = "done", !.oracleOutcome = "timedOut",
                  !.path = "fallback", !.formattedResources = shuffled,
                  !.arrived = FallbackSample(shuffled),
                  !.res = Reconcile(FallbackSample(shuffled), shuffled)])
    /\ StoreUnchanged

\* the steps of a request by one of requesters, the oracle answering from
\* answers
HandlerOn(r, requesters, answers) ==
    \/ \E uid \in requesters, company \in Tenants : Request(r, uid, company)
    \/ FindUser(r)
    \/ FindGoal(r)
    \/ FindCompanyUsers(r)
    \/ FindResources(r)
    \/ FindPeers(r)
    \/ FormatAndResolve(r)
    \/ StoreFails(r)
    \/ \E storeRaises \in BOOLEAN : Dispatch(r, storeRaises)
    \/ \E answer \in answers : OracleReturns(r, answer)
    \/ \E shuffled \in Shuffles(rq[r].formattedResources) : OracleFails(r, shuffled)

Handler(r) == HandlerOn(r, UserIds, OracleAnswers)

\* a direct call of getWeights(company)
ResolveWeights(company, storeRaises) ==
    /\ ~wOut.called
    /\ wOut' = [called |-> TRUE, company |-> company, storeRaised |-> storeRaises,
                out |-> getWeights(company, storeRaises)]
    /\ UNCHANGED <<users, resources, idps, legacyFile, moduleWeights, rq>>

-----------------------------------------------------------------------------
(* Stores and specifications *)

Providers == {undefined, "Unknown", "Acme"}

User(company, role, name, settings) ==
    [company |-> company, role |-> role, name |-> name, companySettings |-> settings,
     skills |-> <<>>]

\* a user document with skills; level 0 stands for a level that is not set
Skilled(user, skills) == [user EXCEPT !.skills = skills]
Skill(skillId, level) == [skillId |-> skillId, level |-> level]

Plan(employee, status, createdAt, goals, recommendedResources) ==
    [employee |-> employee, status |-> status, createdAt |-> createdAt,
     goals |-> goals, recommendedResources |-> recommendedResources]

Statuses == {"draft", "pending", "approved", "completed", "rejected"}

\* one approved plan of the employee of tenant A and one completed plan of
\* the employee of tenant B
FewPlans ==
    [p \in IdpIds |->
        IF p = "p1" THEN Plan("u1", "approved", 1, "Learn Go", <<"r1">>)
        ELSE Plan("u3", "completed", 2, "Lead a team", <<"r2">>)]

NoFile == [state |-> "absent", text |-> ""]

\* legacy file: absent, present with some text, or present and unreadable
LegacyFiles ==
    {NoFile} \cup {[state |-> "present", text |-> t] : t \in FileTexts}
             \cup {[state |-> "unreadable", text |-> ""]}

\* two tenants: A with an employee and an admin that configured weights, B
\* with one employee; every resource by any of them, with any provider, all
\* teaching the same skill
Init ==
    /\ users = [u \in {"u1", "u2", "u3"} |->
                  CASE u = "u1" -> Skilled(User("A", "employee", "Dana", NoSettings),
                                           <<Skill("s1", 2)>>)
                    [] u = "u2" -> User("A", "admin", undefined, WithWeights(AdminPartial))
                    [] u = "u3" -> Skilled(User("B", "employee", "Lee", NoSettings),
                                           <<Skill("s1", 3)>>)]
    /\ idps = FewPlans
    /\ moduleWeights = DEFAULT_WEIGHTS
    /\ resources \in [ResIds -> [createdBy : {"u1", "u2", "u3"}, provider : Providers,
                                skill : {"s1"}]]
    /\ legacyFile = NoFile
    /\ rq = [r \in Requests |-> IdleRequest]
    /\ wOut = NoWeightsCall

Next == \E r \in {"q1"} : Handler(r)

Spec == Init /\ [][Next]_vars

SettingsChoices ==
    {NoSettings, EmptySettings, WithWeights(AdminPartial), WithWeights(AdminFull)}

\* tenant A with up to two admins in any configuration, tenant B with an
\* admin of its own, and every state of the legacy file
InitWeights ==
    /\ \E role1 \in {"admin", "employee"}, s1, s2 \in SettingsChoices :
          users = [u \in {"u1", "u2", "u3"} |->
                     CASE u = "u1" -> User("A", role1, "Dana", s1)
                       [] u = "u2" -> User("A", "admin", undefined, s2)
                       [] u = "u3" -> User("B", "employee", "Lee", NoSettings)]
    /\ resources = [x \in ResIds |-> [createdBy |-> "u1", provider |-> "Acme",
                                       skill |-> "s1"]]
    /\ idps = FewPlans
    /\ moduleWeights = DEFAULT_WEIGHTS
    /\ legacyFile \in LegacyFiles
    /\ rq = [r \in Requests |-> IdleRequest]
    /\ wOut = NoWeightsCall

NextWeights == \E company \in Tenants, storeRaises \in BOOLEAN :
                  ResolveWeights(company, storeRaises)

SpecWeights == InitWeights /\ [][NextWeights]_vars

\* two answers the oracle gives when the answer is not what is examined
FixedAnswers ==
    {Answer(<<>>),
     Answer(<<Item("r1", undefined, undefined, "Unknown"),
              Item(undefined, "r1", undefined, "Acme")>>)}

\* the requester u1 or u2 of tenant A, its peer with or without skills, and
\* two plans of any employee, status, age order and resource list
InitAgg ==
    /\ \E skills2 \in {<<>>, <<Skill("s1", 0)>>} :
          users = [u \in {"u1", "u2", "u3"} |->
                     CASE u = "u1" -> Skilled(User("A", "employee", "Dana", NoSettings),
                                              <<Skill("s1", 2)>>)
                       [] u = "u2" -> Skilled(User("A", "admin", undefined, NoSettings),
                                              skills2)
                       [] u = "u3" -> Skilled(User("B", "employee", "Lee", NoSettings),
                                              <<Skill("s1", 3)>>)]
    /\ resources = [x \in ResIds |->
                      [createdBy |-> IF x = "r1" THEN "u1" ELSE "u3",
                       provider |-> "Acme", skill |-> "s1"]]
    /\ \E e1 \in {"u1", "u2", "u3"}, e2 \in {"u1", "u2"}, s1, s2 \in Statuses,
          older \in IdpIds, rr1, rr2 \in {<<>>, <<"r2", "r1", "r2">>} :
          idps = [p \in IdpIds |->
                    IF p = "p1"
                    THEN Plan(e1, s1, IF older = "p1" THEN 1 ELSE 2, "Learn Go", rr1)
                    ELSE Plan(e2, s2, IF older = "p2" THEN 1 ELSE 2, "Lead a team", rr2)]
    /\ moduleWeights = DEFAULT_WEIGHTS
    /\ legacyFile = NoFile
    /\ rq = [r \in Requests |-> IdleRequest]
    /\ wOut = NoWeightsCall

NextAgg == \E r \in {"q1"} : HandlerOn(r, {"u1", "u2"}, FixedAnswers)

SpecAgg == InitAgg /\ [][NextAgg]_vars

\* a pending store query or getWeights call settles and the handler resumes
StoreSettles(r) ==
    \/ FindUser(r) \/ FindGoal(r) \/ FindCompanyUsers(r) \/ FindResources(r)
    \/ FindPeers(r) \/ FormatAndResolve(r) \/ StoreFails(r)
    \/ \E storeRaises \in BOOLEAN : Dispatch(r, storeRaises)

\* the timer of a pending oracle call runs out
TimerExpires(r) ==
    \E shuffled \in Shuffles(rq[r].formattedResources) : OracleTimesOut(r, shuffled)

NextLive ==
    \E r \in {"q1"} : HandlerOn(r, UserIds, FixedAnswers) \/ TimerExpires(r)

\* the stores answer every query and the timer of a call fires; nothing is
\* assumed of the oracle, which may stay silent for ever
SpecLive ==
    /\ Init /\ [][NextLive]_vars
    /\ \A r \in {"q1"} : WF_vars(StoreSettles(r)) /\ WF_vars(TimerExpires(r))

\* tenant A with a configured admin, tenant B without, one resource each
InitConc ==
    /\ users = [u \in {"u1", "u2", "u3"} |->
                  CASE u = "u1" -> Skilled(User("A", "employee", "Dana", NoSettings),
                                           <<Skill("s1", 2)>>)
                    [] u = "u2" -> User("A", "admin", undefined, WithWeights(AdminPartial))
                    [] u = "u3" -> Skilled(User("B", "employee", "Lee", NoSettings),
                                           <<Skill("s1", 3)>>)]
    /\ idps = FewPlans
    /\ moduleWeights = DEFAULT_WEIGHTS
    /\ \E c2 \in {"u1", "u3"}, p \in Providers :
          resources = [x \in ResIds |->
                         [createdBy |-> IF x = "r1" THEN "u1" ELSE c2,
                          provider |-> p, skill |-> "s1"]]
    /\ legacyFile = NoFile
    /\ rq = [r \in Requests |-> IdleRequest]
    /\ wOut = NoWeightsCall

\* two requests in flight, their resumptions in any order
NextConc == \E r \in Requests : HandlerOn(r, {"u1", "u2", "u3"}, FixedAnswers)

SpecConc == InitConc /\ [][NextConc]_vars

-----------------------------------------------------------------------------
(* Properties of the Weight Resolver, checked under SpecWeights *)

WeightCategories == DOMAIN DEFAULT_WEIGHTS

IsWeightConfig(w) ==
    /\ DOMAIN w \subseteq WeightCategories
    /\ \A k \in DOMAIN w : w[k] \in Nat

\* the admins of a tenant that carry weights
AdminsWithWeights(company) ==
    {u \in DOMAIN users :
        /\ users[u].company = company
        /\ users[u].role = "admin"
        /\ users[u].companySettings.has = "weights"}

\* the admin account the lookup finds (first in store order) carries weights
AdminTierWins(company) ==
    /\ AdminMatches(company) # {}
    /\ LET i == CHOOSE k \in AdminMatches(company) :
                    \A j \in AdminMatches(company) : k <= j
       IN users[UserOrder[i]].companySettings.has = "weights"

FoundAdminWeights(company) ==
    LET i == CHOOSE k \in AdminMatches(company) :
                 \A j \in AdminMatches(company) : k <= j
    IN users[UserOrder[i]].companySettings.aiWeights

LegacyValid ==
    legacyFile.state = "present" /\ JSONparse(legacyFile.text).kind = "return"

\* C7: getWeights always returns a weight configuration and never throws,
\* whatever the store lookup and the legacy file do; for a tenant with no
\* admin weights and no legacy file it returns exactly DEFAULT_WEIGHTS.
C7_WeightsTotal ==
    wOut.called =>
        /\ wOut.out.kind = "return"
        /\ IsWeightConfig(wOut.out.value)
        /\ (AdminsWithWeights(wOut.company) = {} /\ legacyFile.state = "absent"
              => wOut.out.value = DEFAULT_WEIGHTS)

\* the store lookup raised and the legacy file cannot be read, and the call
\* still returned the defaults
C7_Witness ==
    /\ wOut.called /\ wOut.storeRaised
    /\ legacyFile.state = "unreadable"
    /\ wOut.out = Ret(DEFAULT_WEIGHTS)

\* C8: when no lookup raises, the result is exactly the first available tier:
\* the weights of the admin account found, else the parsed legacy file, else
\* DEFAULT_WEIGHTS, with no key from a lower tier.
C8_FirstTierWins ==
    (/\ wOut.called /\ ~wOut.storeRaised
     /\ (AdminTierWins(wOut.company) \/ legacyFile.state = "absent" \/ LegacyValid))
    => wOut.out =
          Ret(IF AdminTierWins(wOut.company) THEN FoundAdminWeights(wOut.company)
              ELSE IF LegacyValid THEN JSONparse(legacyFile.text).value
              ELSE DEFAULT_WEIGHTS)

\* an admin configuration with two of the six categories wins over a valid
\* legacy file and is returned with those two keys only
C8_Witness ==
    /\ wOut.called /\ ~wOut.storeRaised
    /\ AdminTierWins(wOut.company) /\ LegacyValid
    /\ wOut.out.kind = "return"
    /\ DOMAIN wOut.out.value = {"skill_gap", "collaborative"}

\* C9: a lookup error falls through to the next tier: the admin lookup raises
\* and a valid legacy file is present, so the legacy weights are returned; the
\* legacy file is malformed or unreadable, so DEFAULT_WEIGHTS is returned.
C9_FallsToNextTier ==
    wOut.called =>
        /\ (wOut.storeRaised /\ LegacyValid
              => wOut.out = Ret(JSONparse(legacyFile.text).value))
        /\ ((~wOut.storeRaised /\ ~AdminTierWins(wOut.company)
               /\ legacyFile.state # "absent" /\ ~LegacyValid)
              => wOut.out = Ret(DEFAULT_WEIGHTS))

-----------------------------------------------------------------------------
(* Properties of getSuggestions, checked under Spec *)

Answered200(r) == rq[r].pc = "done" /\ rq[r].res.status = 200

\* the stored resources created by a user of the tenant
TenantResources(company) ==
    {x \in DOMAIN resources :
        /\ resources[x].createdBy \in DOMAIN users
        /\ users[resources[x].createdBy].company = company}

\* the tenant of the stored requester
RequesterTenant(r) == users[rq[r].userId].company

\* position of the first item of recs that carries identifier x
FirstWith(recs, x) ==
    CHOOSE k \in 1..Len(recs) :
        /\ RecId(recs[k]) = x
        /\ \A j \in 1..(k - 1) : RecId(recs[j]) # x

\* C1: no two entries of the recommendations of a 200 response carry the same
\* resource identifier (read from resourceId, _id or id), on the oracle path
\* and on the fallback path.
C1_NoDuplicateIds ==
    \A r \in Requests :
        Answered200(r) =>
            \A i, j \in 1..Len(rq[r].res.recommendations) :
                i # j => RecId(rq[r].res.recommendations[i])
                            # RecId(rq[r].res.recommendations[j])

\* the oracle named one identifier twice, under resourceId and under _id, and
\* the response holds it once
C1_Witness ==
    \E r \in Requests :
        /\ Answered200(r) /\ rq[r].path = "oracle"
        /\ Len(rq[r].arrived.recommendations) = 2
        /\ rq[r].arrived.recommendations[1].resourceId = "r1"
        /\ rq[r].arrived.recommendations[2].resourceId = undefined
        /\ rq[r].arrived.recommendations[2]._id = "r1"
        /\ Len(rq[r].res.recommendations) = 1

\* C2: the recommendations of a 200 response have at most limit entries, on
\* both paths, whatever number of recommendations the oracle returns.
C2_AtMostLimit ==
    \A r \in Requests :
        Answered200(r) => Len(rq[r].res.recommendations) <= limit

\* C3: when the requester exists, aggregation succeeded and the oracle call
\* fails, the answer is status 200 with a recommendations list, which is empty
\* when the tenant has no resource candidates.
C3_OracleFailureAnswered ==
    \A r \in Requests :
        (rq[r].pc = "done" /\ rq[r].path = "fallback") =>
            /\ rq[r].res.status = 200
            /\ rq[r].res.body = "recs"
            /\ (TenantResources(RequesterTenant(r)) = {}
                  => rq[r].res.recommendations = <<>>)

\* the oracle failed for a requester whose tenant has no resources, and the
\* answer is 200 with an empty list
C3_Witness ==
    \E r \in Requests :
        /\ rq[r].pc = "done" /\ rq[r].path = "fallback"
        /\ TenantResources(RequesterTenant(r)) = {}
        /\ rq[r].res = Response(200, "recs", <<>>)

\* C4: an oracle answer that is no object, or an object without a
\* recommendations list, is recovered and answered with status 200, never
\* with an error response.
C4_MalformedRecovered ==
    \A r \in Requests :
        (/\ rq[r].pc = "done" /\ rq[r].path = "oracle"
         /\ rq[r].arrived.kind \in {"null", "noRecs"})
        => rq[r].res.status = 200

\* C5: every resource of payload.resources was created by a user of the
\* requester's tenant, also when another tenant's resource teaches the same
\* skill.
C5_CandidatesTenantScoped ==
    \A r \in Requests :
        rq[r].oracleCalls > 0 =>
            \A i \in 1..Len(rq[r].payload.resources) :
                rq[r].payload.resources[i]._id \in TenantResources(RequesterTenant(r))

\* the payload holds a candidate while another tenant owns a resource for
\* the same skill
C5_Witness ==
    \E r \in Requests :
        /\ rq[r].oracleCalls > 0
        /\ Len(rq[r].payload.resources) = 1
        /\ \E x \in DOMAIN resources :
              /\ x \notin TenantResources(RequesterTenant(r))
              /\ resources[x].skill = rq[r].payload.resources[1].skill._id

\* C6: no entry of the recommendations of a 200 response identifies a
\* resource created by a user of another tenant, whatever the oracle returns.
C6_RecommendationsTenantScoped ==
    \A r \in Requests :
        Answered200(r) =>
            \A i \in 1..Len(rq[r].res.recommendations) :
                RecId(rq[r].res.recommendations[i]) \in DOMAIN resources
                    => RecId(rq[r].res.recommendations[i])
                           \in TenantResources(RequesterTenant(r))

\* a tenant candidate whose stored provider is absent or "Unknown" and whose
\* creator has a display name
NeedsCreatorName(r, x) ==
    /\ x \in TenantResources(RequesterTenant(r))
    /\ resources[x].provider \in {undefined, "Unknown"}
    /\ Truthy(users[resources[x].createdBy].name)

\* C10: an entry of a 200 response that identifies such a candidate carries
\* the creator's display name as provider: on the oracle path when the item
\* arrived with the provider absent or "Unknown", on the fallback path always.
C10_ProviderBackfilled ==
    \A r \in Requests :
        Answered200(r) =>
            \A i \in 1..Len(rq[r].res.recommendations) :
                LET e == rq[r].res.recommendations[i]
                    x == RecId(e)
                    a == rq[r].arrived.recommendations[
                             FirstWith(rq[r].arrived.recommendations, x)]
                IN (/\ x \in DOMAIN resources
                    /\ NeedsCreatorName(r, x)
                    /\ (rq[r].path = "oracle" => a.provider \in {undefined, "Unknown"}))
                   => e.provider = users[resources[x].createdBy].name

\* the oracle echoed "Unknown" for a candidate stored with provider
\* "Unknown" and created by Dana, and the response names Dana
C10_Witness ==
    \E r \in Requests :
        /\ Answered200(r) /\ rq[r].path = "oracle"
        /\ Len(rq[r].res.recommendations) >= 1
        /\ rq[r].arrived.recommendations[1].provider = "Unknown"
        /\ RecId(rq[r].arrived.recommendations[1]) \in DOMAIN resources
        /\ NeedsCreatorName(r, RecId(rq[r].arrived.recommendations[1]))
        /\ resources[RecId(rq[r].arrived.recommendations[1])].provider = "Unknown"
        /\ rq[r].res.recommendations[1].provider = "Dana"

-----------------------------------------------------------------------------
(* Properties of the Signal Aggregator, checked under SpecAgg *)

\* the resources a user consumed in an approved or completed plan
Consumed(u) ==
    UNION {{idps[p].recommendedResources[i] :
               i \in 1..Len(idps[p].recommendedResources)} :
           p \in {q \in DOMAIN idps :
                    idps[q].employee = u /\ idps[q].status \in {"approved", "completed"}}}

\* the users of the requester's tenant, other than the requester, that carry
\* a skill or a consumed resource
SignalPeers(r) ==
    {u \in DOMAIN users :
        /\ u # rq[r].userId
        /\ users[u].company = RequesterTenant(r)
        /\ (Len(users[u].skills) > 0 \/ Consumed(u) # {})}

\* C11: peer_data of the payload lists exactly the users of the requester's
\* tenant, other than the requester, with at least one skill or one resource
\* consumed in an approved or completed plan, each once and with exactly
\* those resources.
C11_PeerDataExact ==
    \A r \in Requests :
        rq[r].oracleCalls > 0 =>
            LET pd == rq[r].payload.peer_data
            IN /\ {pd[i].userId : i \in 1..Len(pd)} = SignalPeers(r)
               /\ Len(pd) = Cardinality(SignalPeers(r))
               /\ \A i \in 1..Len(pd) :
                     /\ {pd[i].resources[k] : k \in 1..Len(pd[i].resources)}
                           = Consumed(pd[i].userId)
                     /\ (Len(pd[i].skills) > 0 \/ Len(pd[i].resources) > 0)

\* the only peer of the requester has no skill and its only plan with
\* resources is neither approved nor completed: peer_data is empty, while a
\* user of the other tenant has skills
C11_Witness ==
    \E r \in Requests :
        /\ rq[r].oracleCalls > 0
        /\ rq[r].userId = "u1"
        /\ users["u2"].skills = <<>>
        /\ \E p \in DOMAIN idps :
              /\ idps[p].employee = "u2" /\ idps[p].status = "pending"
              /\ idps[p].recommendedResources # <<>>
        /\ users["u3"].skills # <<>>
        /\ rq[r].payload.peer_data = <<>>

\* the requester's plans in status draft, pending or approved
Eligible(r) ==
    {p \in DOMAIN idps :
        /\ idps[p].employee = rq[r].userId
        /\ idps[p].status \in {"draft", "pending", "approved"}}

\* C12: goal_text of the payload is the goals field of the requester's most
\* recently created plan among those in status draft, pending or approved,
\* and the empty string when there is none.
C12_GoalTextLatestEligible ==
    \A r \in Requests :
        rq[r].oracleCalls > 0 =>
            /\ (Eligible(r) = {} => rq[r].payload.goal_text = "")
            /\ \A p \in Eligible(r) :
                  (\A q \in Eligible(r) : idps[q].createdAt <= idps[p].createdAt)
                      => rq[r].payload.goal_text = idps[p].goals

\* the requester's newest plan is rejected and the older one is a draft:
\* goal_text is the draft's goals
C12_Witness ==
    \E r \in Requests :
        /\ rq[r].oracleCalls > 0
        /\ \E p, q \in DOMAIN idps :
              /\ idps[p].employee = rq[r].userId /\ idps[q].employee = rq[r].userId
              /\ idps[p].status = "draft" /\ idps[q].status = "rejected"
              /\ idps[p].createdAt < idps[q].createdAt
              /\ rq[r].payload.goal_text = idps[p].goals

-----------------------------------------------------------------------------
(* Further properties of getSuggestions, checked under Spec *)

MissingProfile(r) == rq[r].userId # undefined /\ rq[r].userId \notin DOMAIN users

\* C13: when the requester's profile is missing, the lookup of the profile
\* ends the request with status 404 (unless the lookup itself rejects, which
\* is a 500), and neither the oracle call nor the fallback runs for it.
C13_MissingProfileNotFound ==
    /\ [](\A r \in Requests :
            (MissingProfile(r) \/ rq[r].res.status = 404) =>
                /\ rq[r].oracleCalls = 0
                /\ rq[r].oracleOutcome = "none"
                /\ rq[r].path = "none")
    /\ [][\A r \in Requests :
            (/\ rq[r].pc = "findUser" /\ MissingProfile(r)
             /\ rq'[r].pc # "findUser" /\ rq'[r].res.status # 500)
            => (rq'[r].pc = "done" /\ rq'[r].res = Response(404, "message", <<>>))]_vars

\* a request for a missing profile was answered 404
C13_Witness ==
    \E r \in Requests :
        /\ MissingProfile(r) /\ rq[r].pc = "done"
        /\ rq[r].res.status = 404 /\ rq[r].oracleCalls = 0

\* C14: a request that reaches the dispatcher calls the oracle exactly once;
\* the fallback runs if and only if that call was rejected, and the answer
\* that is reconciled comes from exactly one of the two paths.
C14_OneAttemptOnePath ==
    \A r \in Requests :
        /\ rq[r].oracleCalls <= 1
        /\ (rq[r].pc = "oracle" => rq[r].oracleCalls = 1)
        /\ (rq[r].pc # "done" \/ rq[r].oracleCalls = 0
              => rq[r].path = "none" /\ rq[r].oracleOutcome = "none")
        /\ (rq[r].pc = "done" /\ rq[r].oracleCalls = 1 =>
              /\ rq[r].path \in {"oracle", "fallback"}
              /\ (rq[r].path = "fallback" <=> rq[r].oracleOutcome = "rejected")
              /\ (rq[r].path = "oracle" <=> rq[r].oracleOutcome = "resolved")
              /\ (rq[r].path = "fallback"
                    => rq[r].arrived = FallbackSample(rq[r].formattedResources)))

\* the single call was rejected and the fallback answered
C14_Witness ==
    \E r \in Requests :
        /\ rq[r].pc = "done" /\ rq[r].oracleCalls = 1
        /\ rq[r].oracleOutcome = "rejected" /\ rq[r].path = "fallback"
        /\ Len(rq[r].res.recommendations) = 2

\* positions of recs that hold the first occurrence of an identifier
FirstPositions(recs) ==
    {k \in 1..Len(recs) :
        /\ Truthy(RecId(recs[k]))
        /\ \A j \in 1..(k - 1) : RecId(recs[j]) # RecId(recs[k])}

\* the i-th smallest element of a set of positions
NthOf(positions, i) ==
    CHOOSE k \in positions : Cardinality({j \in positions : j <= k}) = i

\* C15: the recommendations of a 200 response are the items that arrived at
\* the first occurrence of each identifier, in their original order and
\* unchanged but for the provider; nothing is added, reordered or re-filled.
C15_FirstOccurrencesInOrder ==
    \A r \in Requests :
        Answered200(r) =>
            LET a == rq[r].arrived.recommendations
                out == rq[r].res.recommendations
                first == FirstPositions(a)
            IN /\ Len(out) = Cardinality(first)
               /\ \A i \in 1..Len(out) :
                     LET k == NthOf(first, i)
                     IN [out[i] EXCEPT !.provider = a[k].provider] = a[k]

\* the oracle named r2 and then r1, under different fields, and the response
\* holds both in that order
C15_Witness ==
    \E r \in Requests :
        /\ Answered200(r) /\ rq[r].path = "oracle"
        /\ Len(rq[r].arrived.recommendations) = 2
        /\ Len(rq[r].res.recommendations) = 2
        /\ RecId(rq[r].res.recommendations[1]) = "r2"
        /\ rq[r].res.recommendations[2].id = "r1"

\* C18: every entry of a 200 response carries a non-empty identifier; an
\* oracle item with no identifier, or only empty ones, is left out of the
\* response, which is still a 200.
C18_UnidentifiedDropped ==
    \A r \in Requests :
        /\ Answered200(r) =>
              \A i \in 1..Len(rq[r].res.recommendations) :
                  Truthy(RecId(rq[r].res.recommendations[i]))
        /\ (rq[r].pc = "done" /\ rq[r].arrived.kind = "recs") =>
              /\ rq[r].res.status = 200
              /\ Len(rq[r].res.recommendations)
                    = Cardinality({RecId(rq[r].arrived.recommendations[k]) :
                                      k \in 1..Len(rq[r].arrived.recommendations)}
                                  \ {undefined, ""})

\* the oracle sent an item without identifier and an item with only empty
\* identifiers, and the 200 response is empty
C18_Witness ==
    \E r \in Requests :
        /\ Answered200(r) /\ rq[r].path = "oracle"
        /\ Len(rq[r].arrived.recommendations) = 2
        /\ rq[r].arrived.recommendations[1].resourceId = undefined
        /\ rq[r].arrived.recommendations[1]._id = undefined
        /\ rq[r].arrived.recommendations[1].id = undefined
        /\ rq[r].arrived.recommendations[2].resourceId = ""
        /\ rq[r].res.recommendations = <<>>

-----------------------------------------------------------------------------
(* Liveness of a request, checked under SpecLive *)

\* C16: every request that has arrived is eventually answered; a call the
\* oracle never answers is ended by the timeout, the fallback runs and the
\* answer is a 200 response.
C16_EventuallyAnswered ==
    /\ \A r \in Requests :
          (rq[r].pc # "idle") ~> (rq[r].pc = "done" /\ rq[r].res.status # 0)
    /\ [](\A r \in Requests :
            rq[r].oracleOutcome = "timedOut" =>
                /\ rq[r].pc = "done"
                /\ rq[r].path = "fallback"
                /\ rq[r].res.status = 200
                /\ Len(rq[r].res.recommendations)
                      = Min(Len(rq[r].formattedResources), sliceEnd))

\* a call timed out and the request was answered 200 with the sample
C16_Witness ==
    \E r \in Requests :
        /\ rq[r].oracleOutcome = "timedOut" /\ rq[r].pc = "done"
        /\ rq[r].res.status = 200 /\ Len(rq[r].res.recommendations) = 2

-----------------------------------------------------------------------------
(* Independence of requests, checked under SpecConc *)

\* the payload the request of r builds when nothing else runs, from the
\* stores and the outcome of its own admin lookup
AlonePayload(r) ==
    LET q == rq[r]
        w == WeightsTry(users[q.userId].company, q.weightsRaised)
        peers == FindPeersOf(q.userId, q.userCompany)
    IN [user_skills |-> UserSkills(users[q.userId].skills),
        resources |-> FormatResources(FindResourcesBy(CompanyUserIds(q.userCompany))),
        peer_data |-> PeerData(peers, FindPeerPlans(peers)),
        custom_weights |-> IF w.kind = "return" THEN w.value ELSE DEFAULT_WEIGHTS,
        limit |-> limit,
        persona |-> users[q.userId].role,
        goal_text |-> LatestGoal(q.userId)]

\* whether the response of r is the one it gives alone for the answer of the
\* oracle, or for the shuffle that was drawn
AloneResponse(r) ==
    IF rq[r].path = "oracle"
    THEN rq[r].res = Reconcile(rq[r].arrived, AlonePayload(r).resources)
    ELSE /\ rq[r].formattedResources \in Shuffles(AlonePayload(r).resources)
         /\ rq[r].res = Reconcile(FallbackSample(rq[r].formattedResources),
                                   rq[r].formattedResources)

\* C17: with two requests interleaved at every await, each request's
\* payload and response are those it produces alone from the same stores,
\* oracle answer and shuffle, and the module's DEFAULT_WEIGHTS stays as
\* declared.
C17_RequestsIndependent ==
    /\ moduleWeights = DEFAULT_WEIGHTS
    /\ \A r \in Requests :
          /\ rq[r].oracleCalls > 0 => rq[r].payload = AlonePayload(r)
          /\ (rq[r].pc = "done" /\ rq[r].path # "none") => AloneResponse(r)

\* a request of tenant A was answered with the admin's weights in its
\* payload while a request of tenant B waits for the oracle with the defaults
C17_Witness ==
    \E r1, r2 \in Requests :
        /\ r1 # r2
        /\ rq[r1].pc = "done" /\ rq[r1].res.status = 200
        /\ rq[r1].userCompany = "A" /\ rq[r1].payload.custom_weights = AdminPartial
        /\ rq[r2].pc = "oracle" /\ rq[r2].userCompany = "B"
        /\ rq[r2].payload.custom_weights = DEFAULT_WEIGHTS

====
